---- MODULE Spec2Model ----
(***************************************************************************)
(* Battlesnake starter bots: main.py (Dijkstra to the nearest food) and    *)
(* examples/safe.py, examples/greedy.py, examples/aggressive.py (safety    *)
(* filter, flood fill, scoring with jitter).  Every move handler is a pure *)
(* function of the snapshot plus random.random(); the handlers are modelled*)
(* as operators computed the way the code computes them, and as actions    *)
(* that apply them to a snapshot.  Cells are tuples <<x, y>>.              *)
(* Scores are kept exact in thousandths (1.0 = 1000).                      *)
(***************************************************************************)
EXTENDS Integers, Sequences, FiniteSets, TLC

VARIABLES variant, gs, call, ff, pf

vars == <<variant, gs, call, ff, pf>>

\* the value of a variable the specification at hand does not use
Idle == "idle"

----------------------------------------------------------------------------
(* Bounds of the model *)

\* boards of the flood-fill specification are FloodW x FloodH
FloodW == 3
FloodH == 2
\* at most this many blocked cells on a flood-fill board
MaxBlocked == 2
\* boards of the path-finder specification are at most PathW x PathH
PathW == 3
PathH == 2
\* at most this many danger cells and food cells together on such a board
MaxMarks == 3

----------------------------------------------------------------------------
(* Helpers shared by the four files *)

\* DIRECTIONS, in dict insertion order
DirOrder == <<"up", "down", "left", "right">>

Dirs == {"up", "down", "left", "right"}

DIRECTIONS(d) ==
    CASE d = "up"    -> <<0, 1>>
      [] d = "down"  -> <<0, -1>>
      [] d = "left"  -> <<-1, 0>>
      [] d = "right" -> <<1, 0>>

add(a, b) == <<a[1] + b[1], a[2] + b[2]>>

in_bounds(pt, w, h) == 0 <= pt[1] /\ pt[1] < w /\ 0 <= pt[2] /\ pt[2] < h

Abs(n) == IF n < 0 THEN -n ELSE n

manhattan(a, b) == Abs(a[1] - b[1]) + Abs(a[2] - b[2])

Cells(w, h) == (0 .. w - 1) \X (0 .. h - 1)

Min2(a, b) == IF a <= b THEN a ELSE b

----------------------------------------------------------------------------
(* Space Estimator: flood_fill_size, the same text in safe.py, greedy.py   *)
(* and aggressive.py.  FloodLoop is the while loop: q the deque, seen the  *)
(* set, count the counter; order is the neighbour enumeration order        *)
(* (DIRECTIONS.values() in the code).                                      *)

\* the inner for loop over the neighbours of cur: <<q, seen>> after it
RECURSIVE FloodNeighbours(_, _, _, _, _, _, _, _)
FloodNeighbours(cur, i, order, q, seen, blocked, w, h) ==
    IF i > Len(order) THEN <<q, seen>>
    ELSE LET key == add(cur, DIRECTIONS(order[i]))
         IN IF in_bounds(key, w, h) /\ key \notin blocked /\ key \notin seen
            THEN FloodNeighbours(cur, i + 1, order, Append(q, key),
                                 seen \cup {key}, blocked, w, h)
            ELSE FloodNeighbours(cur, i + 1, order, q, seen, blocked, w, h)

\* a loop condition that tests count <= limit instead of count < limit
FloodGuardOffByOne(st, limit) == st.q # <<>> /\ st.count <= limit

\* the loop condition: while q and count < limit
FloodGuard(st, limit) == st.q # <<>> /\ st.count < limit

\* one iteration of the while loop on st = [q, seen, count]
FloodStep(st, order, blocked, w, h) ==
    LET cur == Head(st.q)
        nb  == FloodNeighbours(cur, 1, order, Tail(st.q), st.seen, blocked, w, h)
    IN [q |-> nb[1], seen |-> nb[2], count |-> st.count + 1]

\* the while loop, run for at most n iterations.  Every iteration dequeues
\* another in-bounds cell, so w * h iterations always end it; the halving
\* only keeps the evaluation shallow.
RECURSIVE FloodLoop(_, _, _, _, _, _, _)
FloodLoop(st, n, order, blocked, w, h, limit) ==
    IF n <= 0 \/ ~FloodGuard(st, limit) THEN st
    ELSE IF n = 1 THEN FloodStep(st, order, blocked, w, h)
    ELSE FloodLoop(FloodLoop(st, n \div 2, order, blocked, w, h, limit),
                   n - n \div 2, order, blocked, w, h, limit)

flood_fill_order(start, blocked, w, h, limit, order) ==
    IF start \in blocked \/ ~in_bounds(start, w, h)
    THEN 0
    ELSE FloodLoop([q |-> <<start>>, seen |-> {start}, count |-> 0],
                   w * h, order, blocked, w, h, limit).count

\* safe.py
flood_fill_size(start, blocked, w, h, limit) ==
    flood_fill_order(start, blocked, w, h, limit, DirOrder)

\* greedy.py
flood_fill_size_greedy(start, blocked, w, h, limit) ==
    flood_fill_order(start, blocked, w, h, limit, DirOrder)

\* aggressive.py
flood_fill_size_aggressive(start, blocked, w, h, limit) ==
    flood_fill_order(start, blocked, w, h, limit, DirOrder)

----------------------------------------------------------------------------
(* Path Finder of greedy.py: bfs_distance.  None is modelled as -1.        *)

None == -1

\* greedy.py: SPACE_LIMIT, "BFS/flood cap for speed"
SPACE_LIMIT == 120

\* the for loop over the neighbours of cur: found is TRUE when the loop
\* returned dist + 1 from inside
RECURSIVE BfsNeighbours(_, _, _, _, _, _, _, _, _)
BfsNeighbours(cur, dist, i, q, seen, target, blocked, w, h) ==
    IF i > Len(DirOrder) THEN [found |-> FALSE, q |-> q, seen |-> seen]
    ELSE LET k == add(cur, DIRECTIONS(DirOrder[i]))
         IN IF ~in_bounds(k, w, h)
            THEN BfsNeighbours(cur, dist, i + 1, q, seen, target, blocked, w, h)
            ELSE IF k \in blocked \/ k \in seen
            THEN BfsNeighbours(cur, dist, i + 1, q, seen, target, blocked, w, h)
            ELSE IF k = target
            THEN [found |-> TRUE, q |-> q, seen |-> seen]
            ELSE BfsNeighbours(cur, dist, i + 1, Append(q, <<k, dist + 1>>),
                               seen \cup {k}, target, blocked, w, h)

\* a loop condition that tests steps <= limit instead of steps < limit
BfsGuardLate(st, limit) == st.result = None /\ st.q # <<>> /\ st.steps <= limit

\* a loop condition that stops one expansion early
BfsGuardEarlyStop(st, limit) ==
    st.result = None /\ st.q # <<>> /\ st.steps + 1 < limit

\* the loop goes on: nothing returned yet, and while q and steps < limit
BfsGuard(st, limit) == st.result = None /\ st.q # <<>> /\ st.steps < limit

\* one iteration of the while loop on st = [q, seen, steps, result];
\* result is the value returned from inside the loop, None while none is
BfsStep(st, target, blocked, w, h) ==
    LET cur == Head(st.q)[1]
        dist == Head(st.q)[2]
        nb == BfsNeighbours(cur, dist, 1, Tail(st.q), st.seen, target, blocked, w, h)
    IN IF nb.found
       THEN [q |-> nb.q, seen |-> nb.seen, steps |-> st.steps, result |-> dist + 1]
       ELSE [q |-> nb.q, seen |-> nb.seen, steps |-> st.steps + 1, result |-> None]

\* the while loop, run for at most n iterations (halved as in FloodLoop)
RECURSIVE BfsLoop(_, _, _, _, _, _, _)
BfsLoop(st, n, target, blocked, w, h, limit) ==
    IF n <= 0 \/ ~BfsGuard(st, limit) THEN st
    ELSE IF n = 1 THEN BfsStep(st, target, blocked, w, h)
    ELSE BfsLoop(BfsLoop(st, n \div 2, target, blocked, w, h, limit),
                 n - n \div 2, target, blocked, w, h, limit)

\* the state the while loop ends in.  Every iteration dequeues another cell
\* (start, or an in-bounds one), so w * h + 1 iterations always end the loop
bfs_run(start, target, blocked, w, h, limit) ==
    BfsLoop([q |-> <<<<start, 0>>>>, seen |-> {start}, steps |-> 0, result |-> None],
            w * h + 1, target, blocked, w, h, limit)

\* one call: the value returned, and the number of cells the while loop
\* took off q (steps counts the iterations that ran to their end, and the
\* iteration that returned from inside the for loop took one more)
bfs_call(start, target, blocked, w, h, limit) ==
    IF start \in blocked \/ target \in blocked THEN [result |-> None, expanded |-> 0]
    ELSE IF start = target THEN [result |-> 0, expanded |-> 0]
    ELSE LET st == bfs_run(start, target, blocked, w, h, limit)
         IN [result |-> st.result,
             expanded |-> st.steps + IF st.result # None THEN 1 ELSE 0]

bfs_distance(start, target, blocked, w, h, limit) ==
    bfs_call(start, target, blocked, w, h, limit).result

----------------------------------------------------------------------------
(* Path Finder of main.py: dijkstra.  queue is the heap as the set of its  *)
(* (dist, cell) entries; heappop takes the least tuple.                    *)

\* Python's tuple order on (dist, (x, y))
TupleLess(a, b) ==
    \/ a[1] < b[1]
    \/ a[1] = b[1] /\ a[2][1] < b[2][1]
    \/ a[1] = b[1] /\ a[2][1] = b[2][1] /\ a[2][2] < b[2][2]

\* a pop that takes the greatest tuple
heappop_greatest(queue) == CHOOSE e \in queue : \A o \in queue \ {e} : TupleLess(o, e)

heappop(queue) == CHOOSE e \in queue : \A o \in queue \ {e} : TupleLess(e, o)

\* the for loop over the neighbours of current
RECURSIVE DijkstraNeighbours(_, _, _, _, _, _, _, _, _)
DijkstraNeighbours(current, current_dist, i, queue, distances, came_from, dangers, w, h) ==
    IF i > Len(DirOrder)
    THEN [queue |-> queue, distances |-> distances, came_from |-> came_from]
    ELSE LET neighbor == add(current, DIRECTIONS(DirOrder[i]))
             new_dist == current_dist + 1
         IN IF /\ in_bounds(neighbor, w, h)
               /\ neighbor \notin dangers
               /\ (neighbor \notin DOMAIN distances \/ new_dist < distances[neighbor])
            THEN DijkstraNeighbours(current, current_dist, i + 1,
                     queue \cup {<<new_dist, neighbor>>},
                     (neighbor :> new_dist) @@ distances,
                     (neighbor :> current) @@ came_from, dangers, w, h)
            ELSE DijkstraNeighbours(current, current_dist, i + 1,
                     queue, distances, came_from, dangers, w, h)

\* the inner loop "while current != start", run for at most n iterations on
\* st = [current, path] (halved as in FloodLoop)
RECURSIVE WalkBack(_, _, _, _)
WalkBack(st, n, start, came_from) ==
    IF n <= 0 \/ st.current = start THEN st
    ELSE IF n = 1
         THEN [current |-> came_from[st.current], path |-> Append(st.path, st.current)]
    ELSE WalkBack(WalkBack(st, n \div 2, start, came_from),
                  n - n \div 2, start, came_from)

Reverse(seq) == [i \in 1 .. Len(seq) |-> seq[Len(seq) + 1 - i]]

\* the walk back along came_from, then path.reverse(); the walk visits each
\* cell of came_from at most once
BuildPath(current, start, came_from) ==
    Reverse(WalkBack([current |-> current, path |-> <<>>],
                     Cardinality(DOMAIN came_from) + 1, start, came_from).path)

\* the loop goes on: nothing returned yet, and while queue
DijkstraGuard(st) == ~st.returned /\ st.queue # {}

\* one iteration of the while loop on
\* st = [queue, distances, came_from, returned, path, explored]; explored
\* counts the heappop calls
DijkstraStep(st, start, dangers, food, w, h) ==
    LET e == heappop(st.queue)
        current == e[2]
    IN IF current \in food
       THEN [st EXCEPT !.queue = st.queue \ {e}, !.returned = TRUE,
                       !.path = BuildPath(current, start, st.came_from),
                       !.explored = @ + 1]
       ELSE LET nb == DijkstraNeighbours(current, e[1], 1, st.queue \ {e},
                          st.distances, st.came_from, dangers, w, h)
            IN [st EXCEPT !.queue = nb.queue, !.distances = nb.distances,
                          !.came_from = nb.came_from, !.explored = @ + 1]

\* the while loop, run for at most n iterations (halved as in FloodLoop)
RECURSIVE DijkstraLoop(_, _, _, _, _, _, _)
DijkstraLoop(st, n, start, dangers, food, w, h) ==
    IF n <= 0 \/ ~DijkstraGuard(st) THEN st
    ELSE IF n = 1 THEN DijkstraStep(st, start, dangers, food, w, h)
    ELSE DijkstraLoop(DijkstraLoop(st, n \div 2, start, dangers, food, w, h),
                      n - n \div 2, start, dangers, food, w, h)

\* the state the while loop ends in.  food: the set of the cells in the
\* food list.  With unit steps a cell is pushed once, when it enters
\* distances, so w * h + 1 iterations always end the loop.
dijkstra_run(board_width, board_height, start, dangers, food) ==
    DijkstraLoop([queue |-> {<<0, start>>}, distances |-> (start :> 0),
                  came_from |-> <<>>, returned |-> FALSE, path |-> <<>>,
                  explored |-> 0],
                 board_width * board_height + 1, start, dangers, food,
                 board_width, board_height)

\* the path is [] when the queue ran empty
dijkstra(board_width, board_height, start, dangers, food) ==
    dijkstra_run(board_width, board_height, start, dangers, food).path

\* a move_map without the entry for (-1, 0)
move_map_no_left(d) ==
    CASE d = <<0, 1>>  -> "up"
      [] d = <<0, -1>> -> "down"
      [] d = <<1, 0>>  -> "right"
      [] OTHER         -> "KeyError"

\* main.move: move_map[(dx, dy)]; a key that is missing raises KeyError
move_map(d) ==
    CASE d = <<0, 1>>  -> "up"
      [] d = <<0, -1>> -> "down"
      [] d = <<-1, 0>> -> "left"
      [] d = <<1, 0>>  -> "right"
      [] OTHER         -> "KeyError"

----------------------------------------------------------------------------
(* The snapshot: gs = [width, height, you, snakes, food].  A snake is      *)
(* [id, body, health]; its "head" is body[1] and its "length" Len(body).   *)
(* you is the planner's own snake, also an entry of snakes; food is the    *)
(* list of food cells.                                                     *)

Range(seq) == {seq[i] : i \in 1 .. Len(seq)}

head(s) == s.body[1]

length(s) == Len(s.body)

\* safe.py board_occupied_cells; all_body_cells in greedy.py, aggressive.py
all_body_cells(g) == UNION {Range(g.snakes[i].body) : i \in 1 .. Len(g.snakes)}

\* next heads taken over the opposing snakes only
next_heads_of_others(g) ==
    {c \in Cells(g.width, g.height) :
        \E i \in 1 .. Len(g.snakes), d \in Dirs :
            /\ g.snakes[i].id # g.you.id
            /\ c = add(head(g.snakes[i]), DIRECTIONS(d))}

\* safe.py next_heads_of_opponents; next_heads_set in greedy.py, aggressive.py:
\* the loop runs over every snake of board.snakes
next_heads_set(g) ==
    {c \in Cells(g.width, g.height) :
        \E i \in 1 .. Len(g.snakes), d \in Dirs :
            c = add(head(g.snakes[i]), DIRECTIONS(d))}

\* first element of points at the least Manhattan distance from centre
\* (Python's min keeps the first minimum); points is not empty
nearest(centre, points) ==
    points[CHOOSE i \in 1 .. Len(points) :
              \A j \in 1 .. Len(points) :
                  \/ manhattan(centre, points[i]) < manhattan(centre, points[j])
                  \/ manhattan(centre, points[i]) = manhattan(centre, points[j]) /\ i <= j]

----------------------------------------------------------------------------
(* Safety Filter: the same statements in safe.py (147-187), greedy.py      *)
(* (138-171) and aggressive.py (141-175).                                  *)

\* a neck rule with the x comparisons swapped
is_move_safe_swapped(g, mv) ==
    IF Len(g.you.body) >= 2
    THEN LET neck == g.you.body[2]
             hd == head(g.you)
         IN CASE mv = "left"  -> ~(neck[1] > hd[1])
              [] mv = "right" -> ~(neck[1] < hd[1])
              [] mv = "down"  -> ~(neck[2] < hd[2])
              [] mv = "up"    -> ~(neck[2] > hd[2])
    ELSE TRUE

\* is_move_safe[mv] after the neck test
is_move_safe(g, mv) ==
    IF Len(g.you.body) >= 2
    THEN LET neck == g.you.body[2]
             hd == head(g.you)
         IN CASE mv = "left"  -> ~(neck[1] < hd[1])
              [] mv = "right" -> ~(neck[1] > hd[1])
              [] mv = "down"  -> ~(neck[2] < hd[2])
              [] mv = "up"    -> ~(neck[2] > hd[2])
    ELSE TRUE

my_tail(g) == g.you.body[Len(g.you.body)]

\* a blocked set that keeps our tail cell
blocked_cells_with_tail(g) == all_body_cells(g)

\* every body cell, our current tail cell discarded
blocked_cells(g) == all_body_cells(g) \ {my_tail(g)}

opponents(g) == SelectSeq(g.snakes, LAMBDA s : s.id # g.you.id)

opp_heads(g) == [i \in 1 .. Len(opponents(g)) |-> head(opponents(g)[i])]

largest_opp(g) ==
    IF opponents(g) = <<>> THEN 0
    ELSE LET lens == {length(opponents(g)[i]) : i \in 1 .. Len(opponents(g))}
         IN CHOOSE m \in lens : \A n \in lens : n <= m

\* a head-collision set taken over the opposing snakes only
avoid_head_cells_others(g) ==
    IF length(g.you) <= largest_opp(g) THEN next_heads_of_others(g) ELSE {}

avoid_head_cells(g) ==
    IF length(g.you) <= largest_opp(g) THEN next_heads_set(g) ELSE {}

nxt(g, mv) == add(head(g.you), DIRECTIONS(mv))

\* the candidate moves, in the order of DIRECTIONS
candidates(g) ==
    SelectSeq(DirOrder, LAMBDA mv :
        /\ is_move_safe(g, mv)
        /\ in_bounds(nxt(g, mv), g.width, g.height)
        /\ nxt(g, mv) \notin blocked_cells(g)
        /\ nxt(g, mv) \notin avoid_head_cells(g))

----------------------------------------------------------------------------
(* Selection: scored.sort(reverse=True); scored[0][1].  Scores are in      *)
(* thousandths; random.random() * 0.01 lies in [0, 0.01), so the jitter in *)
(* thousandths lies in [0, 10); its extremes are modelled.                 *)

\* a jitter of random.random() * 1.0
JitterValuesWide == {0, 999}

JitterValues == {0, 9}

\* Python's order on the move strings: "down" < "left" < "right" < "up"
MvRank(mv) ==
    CASE mv = "down" -> 1 [] mv = "left" -> 2 [] mv = "right" -> 3 [] mv = "up" -> 4

\* the move of the greatest (score, mv) tuple; base and jit are functions
\* on the candidate moves
best_move(cands, base, jit) ==
    CHOOSE mv \in cands :
        \A o \in cands \ {mv} :
            \/ base[mv] + jit[mv] > base[o] + jit[o]
            \/ base[mv] + jit[mv] = base[o] + jit[o] /\ MvRank(mv) > MvRank(o)

\* what one call of move leaves behind: the move returned, the candidate
\* moves, the score of each scored candidate without its jitter, the food
\* target (a list of at most one cell) and main.py's path
CallRecord(mv, cands, base, target, path) ==
    [done |-> TRUE, mv |-> mv, cands |-> cands, base |-> base,
     target |-> target, path |-> path]

\* an end of move that scores nothing and falls back to "up"
choose_move_up(sc, jit) ==
    IF sc.cands = {}
    THEN [done |-> TRUE, mv |-> "up", cands |-> {}, base |-> <<>>,
          target |-> <<>>, path |-> <<>>]
    ELSE [done |-> TRUE, mv |-> best_move(sc.cands, sc.base, jit), cands |-> sc.cands,
          base |-> sc.base, target |-> sc.target, path |-> <<>>]

\* the end of move in safe.py, greedy.py and aggressive.py: "down" without
\* candidates, else the best of the scored ones
choose_move(sc, jit) ==
    IF sc.cands = {}
    THEN CallRecord("down", {}, <<>>, <<>>, <<>>)
    ELSE CallRecord(best_move(sc.cands, sc.base, jit), sc.cands, sc.base, sc.target, <<>>)

NoCall ==
    [done |-> FALSE, mv |-> "none", cands |-> {}, base |-> <<>>,
     target |-> <<>>, path |-> <<>>]

----------------------------------------------------------------------------
(* main.py move *)

\* the fallback scan of main.move, in its own order up, down, left, right
safe_moves(g) ==
    SelectSeq(DirOrder, LAMBDA mv :
        /\ in_bounds(nxt(g, mv), g.width, g.height)
        /\ nxt(g, mv) \notin all_body_cells(g))

main_move(g) ==
    LET head_pos == g.you.body[1]
        dangers == all_body_cells(g)
        path == dijkstra(g.width, g.height, head_pos, dangers, Range(g.food))
    IN IF path # <<>>
       THEN CallRecord(move_map(<<path[1][1] - head_pos[1], path[1][2] - head_pos[2]>>),
                       {}, <<>>, <<>>, path)
       ELSE CallRecord(IF safe_moves(g) # <<>> THEN safe_moves(g)[1] ELSE "up",
                       Range(safe_moves(g)), <<>>, <<>>, path)

----------------------------------------------------------------------------
(* safe.py move *)

\* safe.py: my_health <= 50
SAFE_HUNGER == 50

\* safe.py: flood_fill_size(..., limit=96)
SAFE_SPACE_LIMIT == 96

\* a hunger test with my_health < 50
safe_food_target_strict(g) ==
    IF g.you.health < SAFE_HUNGER /\ Len(g.food) > 0
    THEN <<nearest(head(g.you), g.food)>>
    ELSE <<>>

safe_food_target(g) ==
    IF g.you.health <= SAFE_HUNGER /\ Len(g.food) > 0
    THEN <<nearest(head(g.you), g.food)>>
    ELSE <<>>

\* score without the jitter: space * 1.0 + toward * 3.0
safe_base(g, mv) ==
    LET space == flood_fill_size(nxt(g, mv), blocked_cells(g), g.width, g.height, SAFE_SPACE_LIMIT)
        target == safe_food_target(g)
        toward == IF target # <<>>
                  THEN manhattan(head(g.you), target[1]) - manhattan(nxt(g, mv), target[1])
                  ELSE 0
    IN space * 1000 + toward * 3000

\* the candidates, and for each its score without the jitter; with no
\* candidate the function returns before the strategy part
safe_scored(g) ==
    LET cands == Range(candidates(g))
    IN IF cands = {}
       THEN [cands |-> {}, base |-> <<>>, target |-> <<>>]
       ELSE [cands |-> cands, base |-> [mv \in cands |-> safe_base(g, mv)],
             target |-> safe_food_target(g)]

safe_move(g, jit) == choose_move(safe_scored(g), jit)

----------------------------------------------------------------------------
(* greedy.py move.  Weights are in thousandths.                            *)

\* FOOD_WEIGHT = 8.0
FOOD_WEIGHT == 8000

\* WINNABLE_FOOD_BONUS = 10.0
WINNABLE_FOOD_BONUS == 10000

\* SPACE_WEIGHT = 0.8
SPACE_WEIGHT == 800

\* the default of min(...) over no opponent heads
NO_OPPONENT_DIST == 1000000

\* least Manhattan distance from an opponent head to cell f
d_opp_min(g, f) ==
    IF opp_heads(g) = <<>> THEN NO_OPPONENT_DIST
    ELSE LET ds == {manhattan(opp_heads(g)[i], f) : i \in 1 .. Len(opp_heads(g))}
         IN CHOOSE m \in ds : \A n \in ds : m <= n

\* a test that takes a food at equal distance for winnable
winnable_on_tie(g, f) == manhattan(head(g.you), f) <= d_opp_min(g, f)

\* d_me < d_opp_min: strictly closer than all opponents
winnable(g, f) == manhattan(head(g.you), f) < d_opp_min(g, f)

\* the loop over foods keeps the first winnable food of least d_me;
\* without one the target is nearest_food(head, foods)
greedy_target(g) ==
    IF g.food = <<>> THEN <<>>
    ELSE LET win == SelectSeq(g.food, LAMBDA f : winnable(g, f))
         IN IF win # <<>> THEN <<nearest(head(g.you), win)>>
            ELSE <<nearest(head(g.you), g.food)>>

greedy_food_score(g, mv, target) ==
    LET d_now == bfs_distance(head(g.you), target, blocked_cells(g),
                              g.width, g.height, SPACE_LIMIT)
        d_next == bfs_distance(nxt(g, mv), target, blocked_cells(g),
                               g.width, g.height, SPACE_LIMIT)
    IN IF d_now # None /\ d_next # None THEN (d_now - d_next) * FOOD_WEIGHT
       ELSE IF d_now = None /\ d_next # None THEN (3 * FOOD_WEIGHT) \div 2
       ELSE 0

\* score without the jitter: food_score + bonus - space_penalty
greedy_base(g, mv) ==
    LET space == flood_fill_size_greedy(nxt(g, mv), blocked_cells(g),
                                        g.width, g.height, SPACE_LIMIT)
        target == greedy_target(g)
        food_score == IF target # <<>> THEN greedy_food_score(g, mv, target[1]) ELSE 0
        bonus == IF target # <<>> /\ manhattan(nxt(g, mv), target[1]) < d_opp_min(g, target[1])
                 THEN WINNABLE_FOOD_BONUS ELSE 0
        space_penalty == IF space < 10 THEN (10 - space) * SPACE_WEIGHT ELSE 0
    IN food_score + bonus - space_penalty

\* the candidates, and for each its score without the jitter; with no
\* candidate the function returns before the strategy part
greedy_scored(g) ==
    LET cands == Range(candidates(g))
    IN IF cands = {}
       THEN [cands |-> {}, base |-> <<>>, target |-> <<>>]
       ELSE [cands |-> cands, base |-> [mv \in cands |-> greedy_base(g, mv)],
             target |-> greedy_target(g)]

greedy_move(g, jit) == choose_move(greedy_scored(g), jit)

----------------------------------------------------------------------------
(* aggressive.py move.  Weights are in thousandths.                        *)

HUNGER_THRESHOLD == 35

\* AGGRESSION = 1.25, in hundredths
AGGRESSION == 125

TRAP_RADIUS == 4

TRAP_SPACE_THRESH == 10

\* SPACE_LIMIT = 96 of aggressive.py
AGGRESSIVE_SPACE_LIMIT == 96

RECURSIVE SumTo(_, _)
SumTo(f, n) == IF n = 0 THEN 0 ELSE f[n] + SumTo(f, n - 1)

aggressive_food_target(g) ==
    IF g.you.health <= HUNGER_THRESHOLD /\ Len(g.food) > 0
    THEN <<nearest(head(g.you), g.food)>>
    ELSE <<>>

\* (d_now - d_next) * 2.5
aggressive_food_score(g, mv) ==
    LET target == aggressive_food_target(g)
    IN IF target # <<>>
       THEN (manhattan(head(g.you), target[1]) - manhattan(nxt(g, mv), target[1])) * 2500
       ELSE 0

\* the first part of attack_score: closing in on the nearest opponent head,
\* and 8.0 * AGGRESSION for each shorter opponent on that head when adjacent
aggressive_head_score(g, mv) ==
    IF opp_heads(g) = <<>> THEN 0
    ELSE LET target_head == nearest(head(g.you), opp_heads(g))
             d_head_now == manhattan(head(g.you), target_head)
             d_head_next == manhattan(nxt(g, mv), target_head)
             opps == opponents(g)
             bonus == [i \in 1 .. Len(opps) |->
                         IF head(opps[i]) = target_head /\ length(g.you) > length(opps[i])
                         THEN (8000 * AGGRESSION) \div 100 ELSE 0]
         IN ((d_head_now - d_head_next) * 1500 * AGGRESSION) \div 100
            + (IF d_head_next = 1 THEN SumTo(bonus, Len(opps)) ELSE 0)

\* min_space of one opponent: the least flood fill over the free cells next
\* to its head, as a list of at most one number
min_space(g, opp, sim_blocked) ==
    LET free == {c \in {add(head(opp), DIRECTIONS(d)) : d \in Dirs} :
                    in_bounds(c, g.width, g.height) /\ c \notin sim_blocked}
        sizes == {flood_fill_size_aggressive(c, sim_blocked, g.width, g.height,
                                             AGGRESSIVE_SPACE_LIMIT) : c \in free}
    IN IF free = {} THEN <<>>
       ELSE <<CHOOSE m \in sizes : \A n \in sizes : m <= n>>

\* the trap part of attack_score
aggressive_trap_score(g, mv) ==
    LET opps == opponents(g)
        sim_blocked == blocked_cells(g) \cup {nxt(g, mv)}
        boost == [i \in 1 .. Len(opps) |->
                    IF manhattan(head(opps[i]), nxt(g, mv)) <= TRAP_RADIUS
                    THEN LET ms == min_space(g, opps[i], sim_blocked)
                             size_diff == length(g.you) - length(opps[i])
                         IN IF ms # <<>> /\ ms[1] < TRAP_SPACE_THRESH
                            THEN ((6000 + (IF size_diff > 0 THEN size_diff ELSE 0) * 500)
                                  * AGGRESSION) \div 100
                            ELSE 0
                    ELSE 0]
    IN SumTo(boost, Len(opps))

\* twice the distance to the centre ((width - 1) / 2, (height - 1) / 2)
dist_center2(g, c) ==
    Abs(2 * c[1] - (g.width - 1)) + Abs(2 * c[2] - (g.height - 1))

\* (dist_center_now - dist_center_next) * 0.2
center_bias(g, mv) ==
    (dist_center2(g, head(g.you)) - dist_center2(g, nxt(g, mv))) * 100

\* score without the jitter
aggressive_base(g, mv) ==
    flood_fill_size_aggressive(nxt(g, mv), blocked_cells(g), g.width, g.height,
                               AGGRESSIVE_SPACE_LIMIT) * 1000
    + aggressive_food_score(g, mv)
    + aggressive_head_score(g, mv)
    + aggressive_trap_score(g, mv)
    + center_bias(g, mv)

\* the candidates, and for each its score without the jitter; with no
\* candidate the function returns before the strategy part
aggressive_scored(g) ==
    LET cands == Range(candidates(g))
    IN IF cands = {}
       THEN [cands |-> {}, base |-> <<>>, target |-> <<>>]
       ELSE [cands |-> cands, base |-> [mv \in cands |-> aggressive_base(g, mv)],
             target |-> aggressive_food_target(g)]

aggressive_move(g, jit) == choose_move(aggressive_scored(g), jit)

----------------------------------------------------------------------------
(* Specification Spec: one of the four bots answers a snapshot.  Each bot  *)
(* is its own program (python main.py serves one move function), so the    *)
(* variant is fixed from the start; the bot keeps nothing between calls.   *)

\* our snake has at most MaxLen segments, the opponent at most MaxOppLen
\* and the board holds at most MaxFood food cells
BoardW == 3
BoardH == 2
MaxLen == 3
MaxOppLen == 1
MaxFood == 1

\* health at and next to the two hunger thresholds
HealthValues == {HUNGER_THRESHOLD, SAFE_HUNGER + 1}

Variants == {"main", "safe", "greedy", "aggressive"}

\* what the rules allow for the body of a live snake: a walk without
\* self-crossing whose last cell may be stacked (at the start of a game and
\* after eating)
LiveBody(b) ==
    \A i \in 1 .. Len(b) - 1 :
        \/ manhattan(b[i], b[i + 1]) = 1 /\ \A j \in 1 .. i : b[j] # b[i + 1]
        \/ b[i] = b[i + 1] /\ \A j \in i + 1 .. Len(b) : b[j] = b[i]

\* the live bodies of n segments, grown a segment at a time (what is left
\* of a live body without its last segment is a live body)
RECURSIVE Bodies(_, _, _)
Bodies(n, w, h) ==
    IF n = 1 THEN {<<c>> : c \in Cells(w, h)}
    ELSE {b \in {Append(p, c) : p \in Bodies(n - 1, w, h), c \in Cells(w, h)} :
            LiveBody(b)}

LiveBodies(maxlen, w, h) ==
    UNION {{b \in Bodies(n, w, h) : LiveBody(b)} : n \in 1 .. maxlen}

\* lists of at most n distinct cells of S
RECURSIVE FoodLists(_, _)
FoodLists(S, n) ==
    IF n = 0 THEN {<<>>}
    ELSE FoodLists(S, n - 1) \cup
         {Append(l, c) : l \in {x \in FoodLists(S, n - 1) : Len(x) = n - 1}, c \in S} 

Distinct(l) == \A i, j \in 1 .. Len(l) : l[i] = l[j] => i = j

Snapshot(w, h, me, opp, food, health) ==
    LET you == [id |-> "you", body |-> me, health |-> health]
    IN [width |-> w, height |-> h, you |-> you,
        snakes |-> IF opp = <<>> THEN <<you>>
                   ELSE <<you, [id |-> "opp", body |-> opp, health |-> 100]>>,
        food |-> food]

Init ==
    /\ variant \in Variants
    /\ \E me \in LiveBodies(MaxLen, BoardW, BoardH) :
         \E opp \in {<<>>} \cup {b \in LiveBodies(MaxOppLen, BoardW, BoardH) :
                                    Range(b) \cap Range(me) = {}} :
            \E food \in {l \in FoodLists(Cells(BoardW, BoardH) \ (Range(me) \cup Range(opp)),
                                         MaxFood) : Distinct(l)} :
               \E health \in HealthValues :
                  gs = Snapshot(BoardW, BoardH, me, opp, food, health)
    /\ call = NoCall
    /\ ff = Idle /\ pf = Idle

\* one random.random() per scored candidate
Jitters(cands) == [cands -> JitterValues]

MoveMain ==
    /\ variant = "main"
    /\ call' = main_move(gs)
    /\ UNCHANGED <<variant, gs, ff, pf>>

MoveSafe ==
    /\ variant = "safe"
    /\ \E sc \in {safe_scored(gs)} :
          \E jit \in Jitters(sc.cands) : call' = choose_move(sc, jit)
    /\ UNCHANGED <<variant, gs, ff, pf>>

MoveGreedy ==
    /\ variant = "greedy"
    /\ \E sc \in {greedy_scored(gs)} :
          \E jit \in Jitters(sc.cands) : call' = choose_move(sc, jit)
    /\ UNCHANGED <<variant, gs, ff, pf>>

MoveAggressive ==
    /\ variant = "aggressive"
    /\ \E sc \in {aggressive_scored(gs)} :
          \E jit \in Jitters(sc.cands) : call' = choose_move(sc, jit)
    /\ UNCHANGED <<variant, gs, ff, pf>>

Next == MoveMain \/ MoveSafe \/ MoveGreedy \/ MoveAggressive

Spec == Init /\ [][Next]_vars

----------------------------------------------------------------------------
(* Claims on the move handlers *)

FilterVariants == {"safe", "greedy", "aggressive"}

\* the cell the returned move leads to
Landing == nxt(gs, call.mv)

\* in bounds and on no snake's body
FreeCell(c) == in_bounds(c, gs.width, gs.height) /\ c \notin all_body_cells(gs)

\* C1: move of every variant returns one of "up", "down", "left", "right"
\* and raises nothing, whatever the food, the opponents and the free cells.
C1_ValidMove == call.done => call.mv \in Dirs

\* main.py answered a snapshot without food and without a free cell next
\* to the head
C1_Witness ==
    /\ call.done /\ variant = "main" /\ gs.food = <<>>
    /\ \A mv \in Dirs : ~FreeCell(nxt(gs, mv))
    /\ call.mv \in Dirs

\* C2 as stated: when some cell next to the head is legal, in bounds and
\* unoccupied, the returned move leads to a cell in bounds and on no body.
C2_Claim ==
    (call.done /\ \E mv \in Dirs : is_move_safe(gs, mv) /\ FreeCell(nxt(gs, mv)))
        => FreeCell(Landing)

\* the directions that pass the reversal, bounds and occupancy rules
BaseLegal ==
    {mv \in Dirs : /\ is_move_safe(gs, mv)
                   /\ in_bounds(nxt(gs, mv), gs.width, gs.height)
                   /\ nxt(gs, mv) \notin blocked_cells(gs)}

\* C3 as stated: with our length <= the largest opposing length the legal
\* set is BaseLegal without the cells one step from an opposing head; when
\* we are strictly longer than every opponent it is BaseLegal.
C3_Claim ==
    (call.done /\ variant \in FilterVariants) =>
        call.cands = IF length(gs.you) <= largest_opp(gs)
                     THEN {mv \in BaseLegal : nxt(gs, mv) \notin next_heads_of_others(gs)}
                     ELSE BaseLegal

\* C4: with a second segment off the head, no candidate of the Safety
\* Filter leads onto body[1] (the neck).
C4_NoReversal ==
    (call.done /\ variant \in FilterVariants /\ Len(gs.you.body) >= 2
        /\ gs.you.body[2] # gs.you.body[1])
    => \A mv \in call.cands : nxt(gs, mv) # gs.you.body[2]

\* a snake of two segments, alone: the neck is the tail cell, which the
\* occupancy rule lets through, and other candidates remain
C4_Witness ==
    /\ call.done /\ variant \in FilterVariants /\ Len(gs.snakes) = 1
    /\ Len(gs.you.body) = 2 /\ manhattan(gs.you.body[1], gs.you.body[2]) = 1
    /\ gs.you.body[2] \notin blocked_cells(gs)
    /\ call.cands # {}

\* no direction survives the safety checks of the variant
NoSafeDirection ==
    IF variant = "main" THEN safe_moves(gs) = <<>> ELSE candidates(gs) = <<>>

\* C5 as stated: in every variant, when no direction survives the safety
\* checks, move returns "down" and scores nothing.
C5_Claim ==
    (call.done /\ NoSafeDirection) => (call.mv = "down" /\ call.base = <<>>)

\* C5 amended: safe, greedy and aggressive then return "down" and score
\* nothing; main returns "up".
C5_Fallback ==
    (call.done /\ NoSafeDirection) =>
        /\ call.base = <<>>
        /\ variant \in FilterVariants => call.mv = "down"
        /\ variant = "main" => call.mv = "up"

\* a filter variant fell back although a free cell was next to the head
C5_Witness ==
    /\ call.done /\ variant \in FilterVariants /\ NoSafeDirection
    /\ call.mv = "down" /\ \E mv \in Dirs : FreeCell(nxt(gs, mv))

\* C9: the move returned has the greatest score without jitter among the
\* scored candidates, and two calls on the same snapshot return the same
\* move or two moves of equal score without jitter; main has no jitter.
C9_JitterBreaksTiesOnly ==
    [][call'.done =>
          /\ (variant \in FilterVariants /\ call'.cands # {}) =>
                \A o \in call'.cands : call'.base[call'.mv] >= call'.base[o]
          /\ call.done =>
                \/ call'.mv = call.mv
                \/ /\ variant \in FilterVariants
                   /\ call.base[call.mv] = call'.base[call'.mv]]_vars

\* the jitter decided: a candidate of the same score and of greater name
\* lost to the move returned
C9_Witness ==
    /\ call.done /\ variant \in FilterVariants
    /\ \E o \in call.cands \ {call.mv} :
          call.base[o] = call.base[call.mv] /\ MvRank(o) > MvRank(call.mv)

\* C12: no candidate of the Safety Filter leads onto a body cell of any
\* snake other than the cell of our last segment, and the occupancy rule
\* lets that cell through, also when another segment lies on it: a
\* direction onto it that passes the reversal and head-collision rules is a
\* candidate.
C12_Occupancy ==
    (call.done /\ variant \in FilterVariants) =>
        /\ \A mv \in call.cands :
              nxt(gs, mv) \in all_body_cells(gs) => nxt(gs, mv) = my_tail(gs)
        /\ \A mv \in Dirs :
              (/\ nxt(gs, mv) = my_tail(gs)
               /\ is_move_safe(gs, mv)
               /\ nxt(gs, mv) \notin avoid_head_cells(gs)) => mv \in call.cands

\* a candidate leads onto our tail cell, on which two segments lie
C12_Witness ==
    /\ call.done /\ variant \in FilterVariants
    /\ \E mv \in call.cands : nxt(gs, mv) = my_tail(gs)
    /\ Len(gs.you.body) >= 2
    /\ gs.you.body[Len(gs.you.body) - 1] = my_tail(gs)

\* the food cells strictly nearer (Manhattan) to our head than to the
\* head of every snake with another id
WinnableFood ==
    {f \in Range(gs.food) :
        \A i \in 1 .. Len(gs.snakes) :
            gs.snakes[i].id # gs.you.id =>
                manhattan(head(gs.you), f) < manhattan(head(gs.snakes[i]), f)}

NearestIn(t, S) ==
    t \in S /\ \A f \in S : manhattan(head(gs.you), t) <= manhattan(head(gs.you), f)

\* C10: the target of greedy is a winnable food of least Manhattan distance
\* from our head when a winnable food exists, else a food of least such
\* distance; every food is winnable without opponents; without food there
\* is no target.
C10_GreedyTarget ==
    (call.done /\ variant = "greedy" /\ call.cands # {}) =>
        IF gs.food = <<>> THEN call.target = <<>>
        ELSE /\ Len(call.target) = 1
             /\ IF WinnableFood # {} THEN NearestIn(call.target[1], WinnableFood)
                ELSE NearestIn(call.target[1], Range(gs.food))

\* with an opponent on the board the target is a winnable food although a
\* food that is not winnable lies nearer to our head
C10_Witness ==
    /\ call.done /\ variant = "greedy" /\ call.cands # {} /\ Len(gs.snakes) = 2
    /\ Len(call.target) = 1 /\ call.target[1] \in WinnableFood
    /\ \E f \in Range(gs.food) \ WinnableFood :
          manhattan(head(gs.you), f) < manhattan(head(gs.you), call.target[1])

\* the flood-fill space of the cell a move leads to
SpaceOf(mv) ==
    flood_fill_size(nxt(gs, mv), blocked_cells(gs), gs.width, gs.height,
                    IF variant = "safe" THEN SAFE_SPACE_LIMIT ELSE AGGRESSIVE_SPACE_LIMIT)

\* what is left of a candidate's score without the terms that are not the
\* food term
FoodTermOf(mv) ==
    call.base[mv] - SpaceOf(mv) * 1000
        - (IF variant = "aggressive"
           THEN aggressive_head_score(gs, mv) + aggressive_trap_score(gs, mv)
                + center_bias(gs, mv)
           ELSE 0)

Hungry ==
    /\ gs.you.health <= (IF variant = "safe" THEN SAFE_HUNGER ELSE HUNGER_THRESHOLD)
    /\ gs.food # <<>>

\* C13: in safe (threshold 50, weight 3.0) and aggressive (threshold 35,
\* weight 2.5) every candidate's food term is the weighted approach to a
\* food nearest to the head exactly when health <= threshold and there is
\* food, and 0 otherwise; above the threshold safe returns a candidate of
\* greatest flood-fill space.
C13_HungerThreshold ==
    (call.done /\ variant \in {"safe", "aggressive"} /\ call.cands # {}) =>
        /\ Hungry =>
              /\ Len(call.target) = 1
              /\ NearestIn(call.target[1], Range(gs.food))
              /\ \A mv \in call.cands :
                    FoodTermOf(mv) =
                        (manhattan(head(gs.you), call.target[1])
                         - manhattan(nxt(gs, mv), call.target[1]))
                        * (IF variant = "safe" THEN 3000 ELSE 2500)
        /\ ~Hungry =>
              /\ call.target = <<>>
              /\ \A mv \in call.cands : FoodTermOf(mv) = 0
        /\ (variant = "safe" /\ gs.you.health > SAFE_HUNGER) =>
              \A o \in call.cands : SpaceOf(call.mv) >= SpaceOf(o)

\* safe at health 50 exactly heads for the second food of the list, the
\* nearer one, and gives up flood-fill space for it
C13_Witness ==
    /\ call.done /\ variant = "safe" /\ gs.you.health = SAFE_HUNGER
    /\ Len(gs.food) = 2 /\ call.target = <<gs.food[2]>>
    /\ \E o \in call.cands : SpaceOf(o) > SpaceOf(call.mv)

----------------------------------------------------------------------------
(* Specification SpecGreedy: greedy.py answers snapshots with up to        *)
(* GreedyFood food cells, so that its choice of a target has a choice.     *)

GreedyW == 4
GreedyH == 2
GreedyFood == 2

\* greedy.py never reads the health: one value stands for all
GreedyHealth == SAFE_HUNGER + 1

InitGreedy ==
    /\ variant = "greedy"
    /\ \E me \in LiveBodies(MaxLen, GreedyW, GreedyH) :
         \E opp \in {<<>>} \cup {b \in LiveBodies(MaxOppLen, GreedyW, GreedyH) :
                                    Range(b) \cap Range(me) = {}} :
            \E food \in {l \in FoodLists(Cells(GreedyW, GreedyH) \ (Range(me) \cup Range(opp)),
                                         GreedyFood) : Distinct(l)} :
               gs = Snapshot(GreedyW, GreedyH, me, opp, food, GreedyHealth)
    /\ call = NoCall
    /\ ff = Idle /\ pf = Idle

NextGreedy == MoveGreedy

SpecGreedy == InitGreedy /\ [][NextGreedy]_vars

----------------------------------------------------------------------------
(* Specification SpecTail: safe.py, greedy.py and aggressive.py answer     *)
(* snapshots whose own body is long enough to have its tail, single or     *)
(* stacked, next to its head.                                              *)

TailW == 3
TailH == 2
TailMaxLen == 5

InitTail ==
    /\ variant \in FilterVariants
    /\ \E me \in LiveBodies(TailMaxLen, TailW, TailH) :
         \E opp \in {<<>>} \cup {b \in LiveBodies(MaxOppLen, TailW, TailH) :
                                    Range(b) \cap Range(me) = {}} :
            \E food \in {l \in FoodLists(Cells(TailW, TailH) \ (Range(me) \cup Range(opp)),
                                         MaxFood) : Distinct(l)} :
               \E health \in HealthValues :
                  gs = Snapshot(TailW, TailH, me, opp, food, health)
    /\ call = NoCall
    /\ ff = Idle /\ pf = Idle

NextTail == MoveSafe \/ MoveGreedy \/ MoveAggressive

SpecTail == InitTail /\ [][NextTail]_vars

----------------------------------------------------------------------------
(* Specification SpecHunger: safe.py and aggressive.py answer snapshots    *)
(* with up to HungerFood food cells and health on both sides of both       *)
(* hunger thresholds.                                                      *)

HungerFood == 2

HungerHealthValues ==
    {HUNGER_THRESHOLD, HUNGER_THRESHOLD + 1, SAFE_HUNGER, SAFE_HUNGER + 1}

InitHunger ==
    /\ variant \in {"safe", "aggressive"}
    /\ \E me \in LiveBodies(MaxLen, BoardW, BoardH) :
         \E opp \in {<<>>} \cup {b \in LiveBodies(MaxOppLen, BoardW, BoardH) :
                                    Range(b) \cap Range(me) = {}} :
            \E food \in {l \in FoodLists(Cells(BoardW, BoardH) \ (Range(me) \cup Range(opp)),
                                         HungerFood) : Distinct(l)} :
               \E health \in HungerHealthValues :
                  gs = Snapshot(BoardW, BoardH, me, opp, food, health)
    /\ call = NoCall
    /\ ff = Idle /\ pf = Idle

NextHunger == MoveSafe \/ MoveAggressive

SpecHunger == InitHunger /\ [][NextHunger]_vars

----------------------------------------------------------------------------
(* Specification SpecFlood: flood_fill_size applied to bounded inputs *)

SubsetsUpTo(S, n) == {B \in SUBSET S : Cardinality(B) <= n}

\* start cells: every cell of the board and the cells just outside it
FloodStarts(w, h) == (-1 .. w) \X (-1 .. h)

FloodInputs ==
    {[w |-> FloodW, h |-> FloodH, blocked |-> b, start |-> s, limit |-> l, done |-> FALSE, out |-> 0] :
        b \in SubsetsUpTo(Cells(FloodW, FloodH), MaxBlocked),
        s \in {c \in FloodStarts(FloodW, FloodH) : c[1] = c[2] \/ in_bounds(c, FloodW, FloodH)},
        l \in {0, 1, 3, FloodW * FloodH}}
    \cup
    {[w |-> 5, h |-> 5, blocked |-> b, start |-> <<2, 2>>, limit |-> l, done |-> FALSE, out |-> 0] :
        b \in {{}, {<<2, 2>>}, {<<0, 0>>}}, l \in {24, 25, 26, 64, 96, 120}}

InitFlood ==
    /\ ff \in FloodInputs
    /\ variant = "flood" /\ gs = Idle /\ call = Idle /\ pf = Idle

FloodFill ==
    /\ variant = "flood"
    /\ ~ff.done
    /\ ff' = [ff EXCEPT !.done = TRUE,
                         !.out = flood_fill_size(ff.start, ff.blocked, ff.w, ff.h, ff.limit)]
    /\ UNCHANGED <<variant, gs, call, pf>>

NextFlood == FloodFill

SpecFlood == InitFlood /\ [][NextFlood]_vars

----------------------------------------------------------------------------
(* Specification SpecPath: bfs_distance and dijkstra applied to bounded    *)
(* inputs.  bfs_distance gets the single food cell as its target.          *)

\* obstacle-free boards with more cells than the cap, and the largest
\* boards the cap still covers: <<w, h, start, target>>
LargeBoards ==
    {<<11, 11, <<0, 0>>, <<10, 10>>>>, <<12, 11, <<0, 0>>, <<11, 10>>>>,
     <<SPACE_LIMIT + 1, 1, <<0, 0>>, <<SPACE_LIMIT, 0>>>>,
     <<SPACE_LIMIT + 2, 1, <<0, 0>>, <<SPACE_LIMIT + 1, 0>>>>,
     <<SPACE_LIMIT + 2, 1, <<0, 0>>, <<SPACE_LIMIT, 0>>>>,
     <<19, 19, <<9, 9>>, <<0, 0>>>>, <<19, 19, <<9, 9>>, <<9, 17>>>>}

PathInput(w, h, s, d, f, l) ==
    [w |-> w, h |-> h, start |-> s, dangers |-> d, food |-> f, limit |-> l,
     bfsDone |-> FALSE, bfs |-> 0, expanded |-> 0,
     dijDone |-> FALSE, path |-> <<>>, explored |-> 0]

InitPath ==
    /\ \/ \E w \in 1 .. PathW, h \in 1 .. PathH :
             \E s \in Cells(w, h), d \in SubsetsUpTo(Cells(w, h), MaxMarks) :
                \E f \in SubsetsUpTo(Cells(w, h), MaxMarks - Cardinality(d)) :
                   \E l \in IF Cardinality(f) = 1 THEN {w * h - 1, SPACE_LIMIT}
                                                  ELSE {SPACE_LIMIT} :
                      pf = PathInput(w, h, s, d, f, l)
       \/ \E b \in LargeBoards :
             pf = PathInput(b[1], b[2], b[3], {}, {b[4]}, SPACE_LIMIT)
    /\ variant = "path" /\ gs = Idle /\ call = Idle /\ ff = Idle

BfsDistance ==
    /\ variant = "path"
    /\ ~pf.bfsDone
    /\ Cardinality(pf.food) = 1
    /\ \E target \in pf.food :
         \E r \in {bfs_call(pf.start, target, pf.dangers, pf.w, pf.h, pf.limit)} :
            pf' = [pf EXCEPT !.bfsDone = TRUE, !.bfs = r.result,
                             !.expanded = r.expanded]
    /\ UNCHANGED <<variant, gs, call, ff>>

Dijkstra ==
    /\ variant = "path"
    /\ ~pf.dijDone
    /\ \E st \in {dijkstra_run(pf.w, pf.h, pf.start, pf.dangers, pf.food)} :
          pf' = [pf EXCEPT !.dijDone = TRUE, !.path = st.path,
                           !.explored = st.explored]
    /\ UNCHANGED <<variant, gs, call, ff>>

NextPath == BfsDistance \/ Dijkstra

SpecPath == InitPath /\ [][NextPath]_vars

----------------------------------------------------------------------------
(* Specification SpecSearch: the three search loops, each on its inputs *)

InitSearch == InitFlood \/ InitPath

NextSearch == NextFlood \/ NextPath

SpecSearch == InitSearch /\ [][NextSearch]_vars

\* the 4-connected component of start among the in-bounds, non-blocked cells
RECURSIVE Grow(_, _, _, _)
Grow(S, blocked, w, h) ==
    LET S2 == S \cup {c \in Cells(w, h) \ blocked :
                        \E s \in S : manhattan(s, c) = 1}
    IN IF S2 = S THEN S ELSE Grow(S2, blocked, w, h)

Component(start, blocked, w, h) == Grow({start}, blocked, w, h)

\* the 24 neighbour enumeration orders
Orders == {o \in [1 .. 4 -> Dirs] : \A i, j \in 1 .. 4 : o[i] = o[j] => i = j}

\* C6: flood_fill_size returns 0 when start is blocked or out of bounds, and
\* otherwise min(limit, N), N the size of the 4-connected component of start
\* among the in-bounds non-blocked cells; the same for every neighbour
\* enumeration order and in the three files.
C6_FloodFillCount ==
    ff.done =>
        LET expected ==
                IF ff.start \in ff.blocked \/ ~in_bounds(ff.start, ff.w, ff.h)
                THEN 0
                ELSE Min2(ff.limit, Cardinality(Component(ff.start, ff.blocked, ff.w, ff.h)))
        IN /\ ff.out = expected
           /\ \A o \in Orders :
                 flood_fill_order(ff.start, ff.blocked, ff.w, ff.h, ff.limit, o) = expected
           /\ flood_fill_size_greedy(ff.start, ff.blocked, ff.w, ff.h, ff.limit) = expected
           /\ flood_fill_size_aggressive(ff.start, ff.blocked, ff.w, ff.h, ff.limit) = expected

\* the centre of the empty 5x5 board with a limit of at least 25 gives 25
C6_Witness ==
    /\ ff.done /\ ff.w = 5 /\ ff.h = 5 /\ ff.blocked = {} /\ ff.start = <<2, 2>>
    /\ ff.limit >= 25 /\ ff.out = 25

----------------------------------------------------------------------------
(* Path Finder claims *)

\* the length of a shortest 4-connected walk from start to a cell of food
\* through in-bounds cells outside dangers (start itself is never tested
\* against dangers); None when there is no such walk
DistGuard(st, food) == st.frontier # {} /\ st.frontier \cap food = {}

\* the cells one step beyond the frontier
DistStep(st, dangers, w, h) ==
    LET next == {c \in (Cells(w, h) \ dangers) \ st.visited :
                    \E s \in st.frontier : manhattan(s, c) = 1}
    IN [frontier |-> next, visited |-> st.visited \cup next, k |-> st.k + 1]

\* at most n layers on st = [frontier, visited, k] (halved as in FloodLoop)
RECURSIVE DistLayers(_, _, _, _, _, _)
DistLayers(st, n, food, dangers, w, h) ==
    IF n <= 0 \/ ~DistGuard(st, food) THEN st
    ELSE IF n = 1 THEN DistStep(st, dangers, w, h)
    ELSE DistLayers(DistLayers(st, n \div 2, food, dangers, w, h),
                    n - n \div 2, food, dangers, w, h)

ShortestDist(start, food, dangers, w, h) ==
    LET st == DistLayers([frontier |-> {start}, visited |-> {start}, k |-> 0],
                         w * h, food, dangers, w, h)
    IN IF st.frontier \cap food # {} THEN st.k ELSE None

ObstacleFreePair == pf.dangers = {} /\ Cardinality(pf.food) = 1

TheTarget == CHOOSE t \in pf.food : TRUE

\* C7 as stated: on an obstacle-free board bfs_distance with the cap
\* SPACE_LIMIT returns the Manhattan distance, never None, and dijkstra
\* returns a path with that many cells, for every board size.
C7_Original ==
    ObstacleFreePair =>
        /\ (pf.bfsDone /\ pf.limit = SPACE_LIMIT) =>
               pf.bfs = manhattan(pf.start, TheTarget)
        /\ pf.dijDone => Len(pf.path) = manhattan(pf.start, TheTarget)

\* C7 amended: on an obstacle-free board bfs_distance returns the Manhattan
\* distance or None, and the Manhattan distance whenever the board has at
\* most limit + 1 cells; dijkstra returns a path with Manhattan-distance
\* many cells on every board.
C7_PathLengthIsManhattan ==
    ObstacleFreePair =>
        /\ pf.bfsDone =>
              /\ pf.bfs \in {None, manhattan(pf.start, TheTarget)}
              /\ pf.w * pf.h <= pf.limit + 1 =>
                     pf.bfs = manhattan(pf.start, TheTarget)
        /\ pf.dijDone => Len(pf.path) = manhattan(pf.start, TheTarget)

\* both finders ran on the 11 x 11 board (121 cells, the most the cap covers)
\* corner to corner
C7_Witness ==
    /\ pf.bfsDone /\ pf.dijDone /\ pf.dangers = {}
    /\ pf.w = 11 /\ pf.h = 11 /\ pf.limit = SPACE_LIMIT
    /\ pf.bfs = 20 /\ Len(pf.path) = 20

PathCells == {pf.path[i] : i \in 1 .. Len(pf.path)}

\* C8: the path of dijkstra excludes start, ends on a food cell, is
\* 4-connected from start on, stays in bounds and outside dangers, and is as
\* long as the shortest distance to any reachable food cell; it is empty
\* when no food cell is reachable; move_map then finds the step to path[0].
C8_DijkstraPath ==
    pf.dijDone =>
        LET path == pf.path
            best == ShortestDist(pf.start, pf.food, pf.dangers, pf.w, pf.h)
        IN /\ pf.start \notin PathCells
           /\ path # <<>> => path[Len(path)] \in pf.food
           /\ path # <<>> => manhattan(pf.start, path[1]) = 1
           /\ \A i \in 1 .. Len(path) - 1 : manhattan(path[i], path[i + 1]) = 1
           /\ \A c \in PathCells : in_bounds(c, pf.w, pf.h) /\ c \notin pf.dangers
           /\ best # None => Len(path) = best
           /\ best = None => path = <<>>
           /\ path # <<>> =>
                 move_map(<<path[1][1] - pf.start[1], path[1][2] - pf.start[2]>>) \in Dirs

\* two food cells outside dangers, and a danger cell on the way: the path is
\* longer than the Manhattan distance to the food cell nearest by Manhattan
C8_Witness ==
    /\ pf.dijDone /\ pf.path # <<>> /\ Cardinality(pf.food) = 2
    /\ pf.food \cap pf.dangers = {}
    /\ \E f \in pf.food : Len(pf.path) > manhattan(pf.start, f)

\* the cells dijkstra can ever push: start, and the in-bounds cells
\* outside dangers
Pushable == (Cells(pf.w, pf.h) \ pf.dangers) \cup {pf.start}

\* C11 as stated: flood_fill_size dequeues at most limit cells, bfs_distance
\* expands at most limit cells, and dijkstra stops after a fixed number of
\* explored nodes whatever the board (the budget of the other two searches,
\* SPACE_LIMIT, is taken for the fixed number).
C11_Original ==
    /\ (variant = "flood" /\ ff.done) => ff.out <= ff.limit
    /\ (variant = "path" /\ pf.bfsDone) => pf.expanded <= pf.limit
    /\ (variant = "path" /\ pf.dijDone) => pf.explored <= SPACE_LIMIT

\* C11 amended: flood_fill_size dequeues at most limit cells and
\* bfs_distance expands at most limit cells; dijkstra has no budget and
\* takes every cell it can reach off the heap at most once, so at most as
\* many nodes as the board has cells outside dangers (and start).
C11_SearchBudgets ==
    /\ (variant = "flood" /\ ff.done) => ff.out <= ff.limit
    /\ (variant = "path" /\ pf.bfsDone) => pf.expanded <= pf.limit
    /\ (variant = "path" /\ pf.dijDone) => pf.explored <= Cardinality(Pushable)

\* on a board of more than SPACE_LIMIT cells bfs_distance used up its
\* budget and gave up, and dijkstra went on beyond that many nodes
C11_Witness ==
    /\ variant = "path" /\ pf.bfsDone /\ pf.dijDone
    /\ pf.expanded = pf.limit /\ pf.bfs = None
    /\ pf.explored > SPACE_LIMIT

\* the length of a shortest walk from cell c to the target of greedy over
\* the in-bounds cells outside blocked, c itself not tested; None without one
TrueDist(c) ==
    ShortestDist(c, {call.target[1]}, blocked_cells(gs), gs.width, gs.height)

\* C14 as stated: with a target, the food score of every candidate of
\* greedy is (distance from the head - distance from the candidate cell)
\* * FOOD_WEIGHT when both distances exist, so a candidate that shortens the
\* path scores strictly higher than one that lengthens it, whatever the
\* length of the body.
C14_Claim ==
    (call.done /\ variant = "greedy" /\ Len(call.target) = 1) =>
        /\ \A mv \in call.cands :
              (TrueDist(head(gs.you)) # None /\ TrueDist(nxt(gs, mv)) # None) =>
                 greedy_food_score(gs, mv, call.target[1])
                    = (TrueDist(head(gs.you)) - TrueDist(nxt(gs, mv))) * FOOD_WEIGHT
        /\ \A a, b \in call.cands :
              (/\ TrueDist(head(gs.you)) # None
               /\ TrueDist(nxt(gs, a)) # None /\ TrueDist(nxt(gs, b)) # None
               /\ TrueDist(nxt(gs, a)) < TrueDist(head(gs.you))
               /\ TrueDist(head(gs.you)) < TrueDist(nxt(gs, b))) =>
                 greedy_food_score(gs, a, call.target[1])
                    > greedy_food_score(gs, b, call.target[1])

\* the opposing snakes whose head is nearest (Manhattan) to our head
NearestOpponents ==
    {i \in 1 .. Len(gs.snakes) :
        /\ gs.snakes[i].id # gs.you.id
        /\ \A j \in 1 .. Len(gs.snakes) :
              gs.snakes[j].id # gs.you.id =>
                 manhattan(head(gs.you), head(gs.snakes[i]))
                    <= manhattan(head(gs.you), head(gs.snakes[j]))}

\* the change of Manhattan distance to the nearest opposing head times
\* 1.5 * AGGRESSION
ClosingReward(mv) ==
    LET i == CHOOSE i \in NearestOpponents : TRUE
    IN ((manhattan(head(gs.you), head(gs.snakes[i]))
         - manhattan(nxt(gs, mv), head(gs.snakes[i]))) * 1500 * AGGRESSION) \div 100

\* C15: whenever aggressive scores a candidate with the term for closing in
\* on the nearest opposing head, we are strictly longer than that opponent;
\* and what the head part of the attack score holds beyond that term, the
\* flat bonus, is there only for a candidate cell at Manhattan distance 1
\* from the head of a strictly shorter opponent.
C15_AttackTerm ==
    (call.done /\ variant = "aggressive" /\ call.cands # {} /\ NearestOpponents # {}) =>
        \A mv \in call.cands :
            /\ \A i \in NearestOpponents : length(gs.you) > length(gs.snakes[i])
            /\ aggressive_head_score(gs, mv) # ClosingReward(mv) =>
                  \E i \in 1 .. Len(gs.snakes) :
                      /\ gs.snakes[i].id # gs.you.id
                      /\ manhattan(nxt(gs, mv), head(gs.snakes[i])) = 1
                      /\ length(gs.snakes[i]) < length(gs.you)

\* a candidate next to the head of a shorter opponent got the closing term
\* and the flat bonus
C15_Witness ==
    /\ call.done /\ variant = "aggressive" /\ NearestOpponents # {}
    /\ \E mv \in call.cands :
          /\ ClosingReward(mv) > 0
          /\ aggressive_head_score(gs, mv)
                = ClosingReward(mv) + (8000 * AGGRESSION) \div 100

\* some snake with another id is at least as long as we are
OpponentNotShorter ==
    \E i \in 1 .. Len(gs.snakes) :
        gs.snakes[i].id # gs.you.id /\ length(gs.snakes[i]) >= length(gs.you)

====
